---- MODULE Spec2Model ----
(***************************************************************************)
(* The menu state machine of app/user_interfaces/cli.py: the driver loop   *)
(* Menu.run, the seven Menu classes and their handle_input methods, the    *)
(* ValidatorInputData sub-prompts and the status picker.                   *)
(*                                                                         *)
(* The collaborators the file imports (library.Library, utils.validator,   *)
(* utils.BookStatus, utils.MenuDesignations) are not part of the source    *)
(* under study; they are modelled at their boundary, as the specification  *)
(* describes them.                                                         *)
(*                                                                         *)
(* An input line is a sequence of one-character strings, so that strip()   *)
(* and the integer parse are computed and not assumed.  An optional value  *)
(* (Python's None or a value) is a set with at most one element.           *)
(***************************************************************************)
EXTENDS Integers, Sequences, FiniteSets, TLC

(* ----------------------------- bounds --------------------------------- *)

\* Identifiers the catalogue may hand out are 1..MaxId.
MaxId == 2

(* ------------------------ optional values ----------------------------- *)

None == {}

Some(v) == {v}

IsSet(o) == o # {}

Val(o) == CHOOSE v \in o : TRUE

(* ------------------------- utils (imported) --------------------------- *)

\* MenuDesignations: the reserved command tokens, none of them a digit.
SAVE == <<"s">>

BACK == <<"b">>

DELETE == <<"d">>

EXIT == <<"e">>

\* BookStatus, in its enumeration order.
BookStatus == <<"available", "issued">>

BookStatusValues == {BookStatus[i] : i \in 1..Len(BookStatus)}

DigitValue ==
  ("0" :> 0) @@ ("1" :> 1) @@ ("2" :> 2) @@ ("3" :> 3) @@ ("4" :> 4) @@
  ("5" :> 5) @@ ("6" :> 6) @@ ("7" :> 7) @@ ("8" :> 8) @@ ("9" :> 9)

IsDigits(s) == Len(s) > 0 /\ \A i \in 1..Len(s) : s[i] \in DOMAIN DigitValue

RECURSIVE DigitsToNat(_)
DigitsToNat(s) ==
  IF Len(s) = 0 THEN 0
  ELSE 10 * DigitsToNat(SubSeq(s, 1, Len(s) - 1)) + DigitValue[s[Len(s)]]

\* The text of an integer: digits, with an optional leading minus sign.
IsInt(s) ==
  \/ IsDigits(s)
  \/ Len(s) > 1 /\ s[1] = "-" /\ IsDigits(Tail(s))

ToInt(s) == IF s[1] = "-" THEN 0 - DigitsToNat(Tail(s)) ELSE DigitsToNat(s)

\* str.strip(): leading and trailing blanks removed.
RECURSIVE strip(_)
strip(s) ==
  IF Len(s) = 0 THEN s
  ELSE IF s[1] = " " THEN strip(Tail(s))
  ELSE IF s[Len(s)] = " " THEN strip(SubSeq(s, 1, Len(s) - 1))
  ELSE s

\* The result of a call that may raise: a value, or an Exception.
Ok(v) == [ok |-> TRUE, val |-> v]

Raise(e) == [ok |-> FALSE, err |-> e]

\* validator.validate_title / validate_author: a non-empty string.
validate_title(title) ==
  IF Len(title) > 0 THEN {Ok(title)} ELSE {Raise("ValidationError")}

validate_author(author) ==
  IF Len(author) > 0 THEN {Ok(author)} ELSE {Raise("ValidationError")}

\* A validator of an integer field: text that is no integer is rejected, a
\* positive integer is accepted.  Whether zero and negative integers are
\* rejected is not fixed by the validator's contract: both outcomes stand.
validate_integer(raw) ==
  IF ~IsInt(raw) THEN {Raise("ValidationError")}
  ELSE IF ToInt(raw) > 0 THEN {Ok(ToInt(raw))}
  ELSE {Ok(ToInt(raw)), Raise("ValidationError")}

validate_year(year) == validate_integer(year)

validate_id(id) == validate_integer(id)

\* validator.validate_status: a label of BookStatus.
validate_status(status) ==
  IF status \in BookStatusValues THEN {Ok(status)} ELSE {Raise("ValidationError")}

(* ------------------------ library (imported) -------------------------- *)

\* Book: a catalogue record.  A book is created with the first status.
Book(id, title, author, year, status) ==
  [id |-> id, title |-> title, author |-> author, year |-> year, status |-> status]

Ids(bs) == {b.id : b \in bs}

BookById(bs, id) == CHOOSE b \in bs : b.id = id

\* The result of a Library call: a value or an Exception, and the catalogue
\* as the call leaves it.
Done(v, bs) == [ok |-> TRUE, val |-> v, books |-> bs]

Fail(e, bs) == [ok |-> FALSE, err |-> e, books |-> bs]

\* Library().get_all_books(): every book; an empty catalogue may be reported
\* as an error.
get_all_books(bs) ==
  {Done(bs, bs)} \cup (IF bs = {} THEN {Fail("DomainError", bs)} ELSE {})

\* Library().add_book(title, author, year): a book with an id no book of the
\* catalogue has; it fails when a field is missing.
add_book(bs, title, author, year) ==
  IF IsSet(title) /\ IsSet(author) /\ IsSet(year)
  THEN {Done(Book(id, Val(title), Val(author), Val(year), BookStatus[1]),
             bs \cup {Book(id, Val(title), Val(author), Val(year), BookStatus[1])})
          : id \in (1..MaxId) \ Ids(bs)}
  ELSE {Fail("DomainError", bs)}

\* Library().remove_book(book_id): the removed book, or not-found.
remove_book(bs, book_id) ==
  IF IsSet(book_id) /\ Val(book_id) \in Ids(bs)
  THEN {Done(BookById(bs, Val(book_id)), bs \ {BookById(bs, Val(book_id))})}
  ELSE {Fail("NotFound", bs)}

\* Library().find_book_id(book_id): the book, or not-found.
find_book_id(bs, book_id) ==
  IF book_id \in Ids(bs) THEN {Done(BookById(bs, book_id), bs)}
  ELSE {Fail("NotFound", bs)}

\* Library().find_books(query): the books whose title, author or year is the
\* query; finding none may be reported as an error.
Matches(b, query) ==
  \/ b.title = query
  \/ b.author = query
  \/ IsDigits(query) /\ b.year = ToInt(query)

find_books(bs, query) ==
  {Done({b \in bs : Matches(b, query)}, bs)}
    \cup (IF {b \in bs : Matches(b, query)} = {} THEN {Fail("DomainError", bs)} ELSE {})

\* Library().change_status(book_id, status): the book's status replaced, or
\* not-found / invalid status.
change_status(bs, book_id, status) ==
  IF IsSet(book_id) /\ Val(book_id) \in Ids(bs)
     /\ IsSet(status) /\ Val(status) \in BookStatusValues
  THEN {Done(None,
             (bs \ {BookById(bs, Val(book_id))})
               \cup {[BookById(bs, Val(book_id)) EXCEPT !.status = Val(status)]})}
  ELSE {Fail("DomainError", bs)}

(* ----------------------------- the menus ------------------------------ *)

MainMenu == [kind |-> "MainMenu"]

AddMenu(book_title, author, year) ==
  [kind |-> "AddMenu", book_title |-> book_title, author |-> author, year |-> year]

SuccessfulCompletion(message, books, last_state, additional_info) ==
  [kind |-> "SuccessfulCompletion", message |-> message, books |-> books,
   last_state |-> last_state, additional_info |-> additional_info]

DeleteMenu(book_id, book) ==
  [kind |-> "DeleteMenu", book_id |-> book_id, book |-> book]

SearchMenu == [kind |-> "SearchMenu"]

ShowBook(books, last_state) ==
  [kind |-> "ShowBook", books |-> books, last_state |-> last_state]

ChangeStatusMenu(book_id, status) ==
  [kind |-> "ChangeStatusMenu", book_id |-> book_id, status |-> status]

\* What a method returns when it returns no Menu.
NoneMenu == [kind |-> "NoneType"]

MenuKinds ==
  {"MainMenu", "AddMenu", "DeleteMenu", "SearchMenu", "ShowBook",
   "ChangeStatusMenu", "SuccessfulCompletion"}

(* ------------------------------ state --------------------------------- *)

VARIABLES
  books,    \* the catalogue: the set of Book records Library() holds
  state,    \* `self` of Menu.run: the current menu object
  pc,       \* the input() call the program is blocked in: "main" (run),
            \* "title", "author", "year", "id" (_input_data), "status" (change_status)
  session,  \* "running", "exited" (os._exit), "interrupted" (KeyboardInterrupt
            \* caught by run), "crashed" (another exception left run)
  last      \* history: the event just handled and the state it was handled in

vars == <<books, state, pc, session, last>>

\* What a handler leaves behind: the menu it returns, where the program blocks
\* next, how the session stands, and the catalogue.
Ret(menu, bs) == [state |-> menu, pc |-> "main", session |-> "running", books |-> bs]

Ask(menu, prompt, bs) == [state |-> menu, pc |-> prompt, session |-> "running", books |-> bs]

End(menu, how, bs) == [state |-> menu, pc |-> "main", session |-> how, books |-> bs]

(* --------------------------- input alphabets -------------------------- *)

\* Lines typed at a menu's own prompt (Menu.run): the digits of the menus,
\* which are also identifiers and a year, a digit no menu uses, the four
\* command tokens, a title, and the empty line.
MainInputs ==
  {<<"1">>, <<"2">>, <<"3">>, <<"4">>, <<"5">>, <<"0">>,
   SAVE, BACK, DELETE, EXIT, <<"D">>, <<>>}

\* Lines typed at the sub-prompts of _input_data.
TitleInputs == {<<>>, <<" ">>, <<" ", "D", " ">>, <<"E">>}

AuthorInputs == {<<>>, <<" ", "H">>}

YearInputs == {<<>>, <<"x">>, <<"5", " ">>}

IdInputs == {<<>>, <<"x">>, <<" ", "1">>, <<"2">>, <<"3">>, <<"0">>}

\* Lines typed at the status picker.
StatusInputs == {<<"1">>, <<"2">>, <<"3">>, <<"0">>, <<"-", "1">>, BACK, <<"x">>}

(* ------------------------------- Menu --------------------------------- *)

\* Menu._on_exit: os._exit(0) ends the process.
Menu_on_exit(self, bs) == {End(self, "exited", bs)}

\* ValidatorInputData._input_data: the line read, stripped.
ValidatorInputData_input_data(data) == strip(data)

(* ----------------------------- MainMenu ------------------------------- *)

\* Mutant: '5' opens the menu of '2'.
MainMenu_handle_input_five_deletes(self, user_input, bs) ==
  CASE user_input = <<"1">> -> {Ret(AddMenu(None, None, None), bs)}
    [] user_input = <<"2">> -> {Ret(DeleteMenu(None, None), bs)}
    [] user_input = <<"3">> -> {Ret(SearchMenu, bs)}
    [] user_input = <<"4">> ->
         {IF r.ok THEN Ret(ShowBook(r.val, self), r.books)
                  ELSE Ret(MainMenu, r.books) : r \in get_all_books(bs)}
    [] user_input = <<"5">> -> {Ret(DeleteMenu(None, None), bs)}
    [] user_input = EXIT -> Menu_on_exit(self, bs)
    [] OTHER -> {Ret(MainMenu, bs)}

MainMenu_handle_input(self, user_input, bs) ==
  CASE user_input = <<"1">> -> {Ret(AddMenu(None, None, None), bs)}
    [] user_input = <<"2">> -> {Ret(DeleteMenu(None, None), bs)}
    [] user_input = <<"3">> -> {Ret(SearchMenu, bs)}
    [] user_input = <<"4">> ->
         {IF r.ok THEN Ret(ShowBook(r.val, self), r.books)
                  ELSE Ret(MainMenu, r.books) : r \in get_all_books(bs)}
    [] user_input = <<"5">> -> {Ret(ChangeStatusMenu(None, None), bs)}
    [] user_input = EXIT -> Menu_on_exit(self, bs)
    [] OTHER -> {Ret(MainMenu, bs)}

(* ------------------------------ AddMenu ------------------------------- *)

\* Mutant: the confirmation returns to the menu that still holds the draft.
AddMenu_saved_keeps_draft(self, new_book) ==
  SuccessfulCompletion("Success completion", Some(<<new_book>>), Some(self),
                       Some("The book has been added successfully"))

\* case SAVE, the else branch: the confirmation of the added book.
AddMenu_saved(self, new_book) ==
  SuccessfulCompletion("Success completion", Some(<<new_book>>),
                       Some(AddMenu(None, None, None)),
                       Some("The book has been added successfully"))

\* Mutant: a failed save returns a fresh AddMenu.
AddMenu_save_failed_resets(self) == AddMenu(None, None, None)

\* case SAVE, the except branch.
AddMenu_save_failed(self) == self

\* Mutant: a refused selection leaves the program as the EXIT of MainMenu does.
AddMenu_incorrect_selection_exits(self, bs) == {End(self, "exited", bs)}

\* case _: the selection is refused and the menu stays.
AddMenu_incorrect_selection(self, bs) == {Ret(self, bs)}

AddMenu_handle_input(self, user_input, bs) ==
  CASE user_input = <<"1">> -> {Ask(self, "title", bs)}
    [] user_input = <<"2">> -> {Ask(self, "author", bs)}
    [] user_input = <<"3">> -> {Ask(self, "year", bs)}
    [] user_input = SAVE ->
         {IF r.ok THEN Ret(AddMenu_saved(self, r.val), r.books)
                  ELSE Ret(AddMenu_save_failed(self), r.books)
            : r \in add_book(bs, self.book_title, self.author, self.year)}
    [] user_input = BACK -> {Ret(MainMenu, bs)}
    [] OTHER -> AddMenu_incorrect_selection(self, bs)

\* Mutant: a refused title clears the field, as cases '2' and '3' do.
AddMenu_input_title_clears(self, data, bs) ==
  {IF r.ok THEN Ret([self EXCEPT !.book_title = Some(r.val)], bs)
           ELSE Ret([self EXCEPT !.book_title = None], bs)
     : r \in validate_title(ValidatorInputData_input_data(data))}

\* case '1', from the line read by _input_title on.
AddMenu_input_title(self, data, bs) ==
  {IF r.ok THEN Ret([self EXCEPT !.book_title = Some(r.val)], bs)
           ELSE Ret(self, bs)
     : r \in validate_title(ValidatorInputData_input_data(data))}

\* case '2', from the line read by _input_author on.
AddMenu_input_author(self, data, bs) ==
  {IF r.ok THEN Ret([self EXCEPT !.author = Some(r.val)], bs)
           ELSE Ret([self EXCEPT !.author = None], bs)
     : r \in validate_author(ValidatorInputData_input_data(data))}

\* case '3', from the line read by _input_year on.
AddMenu_input_year(self, data, bs) ==
  {IF r.ok THEN Ret([self EXCEPT !.year = Some(r.val)], bs)
           ELSE Ret([self EXCEPT !.year = None], bs)
     : r \in validate_year(ValidatorInputData_input_data(data))}

\* A KeyboardInterrupt raised by input() in a sub-prompt.  It is no Exception:
\* case '1' lets it reach run; in cases '2' and '3' the `return self` of the
\* finally clause discards it.
AddMenu_interrupt(self, at, bs) ==
  IF at = "title" THEN {End(self, "interrupted", bs)} ELSE {Ret(self, bs)}

(* ------------------------ SuccessfulCompletion ------------------------ *)

\* Mutant: the confirmation is never left.
SuccessfulCompletion_handle_input_stays(self, user_input, bs) == {Ret(self, bs)}

SuccessfulCompletion_handle_input(self, user_input, bs) ==
  {Ret(IF IsSet(self.last_state) THEN Val(self.last_state) ELSE NoneMenu, bs)}

(* ----------------------------- DeleteMenu ----------------------------- *)

DeleteMenu_validate_input_id(data) == validate_id(data)

\* Mutant: the confirmation is built without a return state.
DeleteMenu_deleted_no_return(self, delete_book) ==
  SuccessfulCompletion("Success completion", Some(<<delete_book>>), None,
                       Some("The book has been deleted successfully"))

\* Mutant: the confirmation returns to the menu that still holds the candidate.
DeleteMenu_deleted_keeps_candidate(self, delete_book) ==
  SuccessfulCompletion("Success completion", Some(<<delete_book>>), Some(self),
                       Some("The book has been deleted successfully"))

\* case DELETE, the else branch: the confirmation of the removed book.
DeleteMenu_deleted(self, delete_book) ==
  SuccessfulCompletion("Success completion", Some(<<delete_book>>),
                       Some(DeleteMenu(None, None)),
                       Some("The book has been deleted successfully"))

\* Mutant: a failed lookup clears the preview.
DeleteMenu_candidate_clears(self, user_input, bs) ==
  UNION {IF ~v.ok THEN {Ret(self, bs)}
         ELSE {IF r.ok
               THEN Ret([self EXCEPT !.book = Some(r.val), !.book_id = Some(r.val.id)],
                        r.books)
               ELSE Ret([self EXCEPT !.book = None], r.books)
                 : r \in find_book_id(bs, v.val)}
           : v \in DeleteMenu_validate_input_id(user_input)}

\* Mutant: the entered id is stored before the book is looked up.
DeleteMenu_candidate_id_first(self, user_input, bs) ==
  UNION {IF ~v.ok THEN {Ret(self, bs)}
         ELSE {IF r.ok
               THEN Ret([self EXCEPT !.book = Some(r.val), !.book_id = Some(r.val.id)],
                        r.books)
               ELSE Ret([self EXCEPT !.book_id = Some(v.val)], r.books)
                 : r \in find_book_id(bs, v.val)}
           : v \in DeleteMenu_validate_input_id(user_input)}

\* Mutant: the candidate is taken out of the catalogue when it is looked up.
DeleteMenu_candidate_removes(self, user_input, bs) ==
  UNION {IF ~v.ok THEN {Ret(self, bs)}
         ELSE {IF r.ok
               THEN Ret([self EXCEPT !.book = Some(r.val), !.book_id = Some(r.val.id)],
                        r.books)
               ELSE Ret(self, r.books) : r \in remove_book(bs, Some(v.val))}
           : v \in DeleteMenu_validate_input_id(user_input)}

\* case _: the line is looked up as a candidate id.
DeleteMenu_candidate(self, user_input, bs) ==
  UNION {IF ~v.ok THEN {Ret(self, bs)}
         ELSE {IF r.ok
               THEN Ret([self EXCEPT !.book = Some(r.val), !.book_id = Some(r.val.id)],
                        r.books)
               ELSE Ret(self, r.books) : r \in find_book_id(bs, v.val)}
           : v \in DeleteMenu_validate_input_id(user_input)}

DeleteMenu_handle_input(self, user_input, bs) ==
  CASE user_input = BACK -> {Ret(MainMenu, bs)}
    [] user_input = DELETE ->
         {IF r.ok THEN Ret(DeleteMenu_deleted(self, r.val), r.books)
                  ELSE Ret(self, r.books) : r \in remove_book(bs, self.book_id)}
    [] OTHER -> DeleteMenu_candidate(self, user_input, bs)

(* ----------------------------- SearchMenu ----------------------------- *)

\* Mutant: the result list returns to the main menu.
SearchMenu_handle_input_returns_main(self, user_input, bs) ==
  CASE user_input = BACK -> {Ret(MainMenu, bs)}
    [] OTHER ->
         {IF r.ok THEN Ret(ShowBook(r.val, MainMenu), r.books)
                  ELSE Ret(self, r.books) : r \in find_books(bs, user_input)}

SearchMenu_handle_input(self, user_input, bs) ==
  CASE user_input = BACK -> {Ret(MainMenu, bs)}
    [] OTHER ->
         {IF r.ok THEN Ret(ShowBook(r.val, self), r.books)
                  ELSE Ret(self, r.books) : r \in find_books(bs, user_input)}

(* ------------------------------ ShowBook ------------------------------ *)

\* Mutant: any key leads to the main menu.
ShowBook_handle_input_to_main(self, input, bs) == {Ret(MainMenu, bs)}

ShowBook_handle_input(self, input, bs) == {Ret(self.last_state, bs)}

(* -------------------------- ChangeStatusMenu -------------------------- *)

\* list(BookStatus)[index]: Python indexing, where a negative index counts
\* from the end and an index outside -len..len-1 raises IndexError.
list_getitem(seq, index) ==
  IF index >= 0 /\ index < Len(seq) THEN Ok(seq[index + 1])
  ELSE IF index < 0 /\ index >= 0 - Len(seq) THEN Ok(seq[Len(seq) + index + 1])
  ELSE Raise("IndexError")

\* ChangeStatusMenu.change_status, from the line read by input() on: the
\* value it returns (a status, or None when it falls off its end) or the
\* exception it raises.
ChangeStatusMenu_change_status(self, data) ==
  UNION {IF ~v.ok THEN {Raise(v.err)}
         ELSE IF list_getitem(BookStatus, v.val - 1).ok
         THEN {IF s.ok THEN Ok(Some(s.val)) ELSE Raise(s.err)
                 : s \in validate_status(list_getitem(BookStatus, v.val - 1).val)}
         ELSE {IF s.ok THEN Ok(None) ELSE Raise(s.err) : s \in validate_status("")}
           : v \in validate_id(data)}

\* case '2', from the line read in the picker on.
ChangeStatusMenu_input_status(self, data, bs) ==
  {IF r.ok THEN Ret([self EXCEPT !.status = r.val], bs) ELSE Ret(self, bs)
     : r \in ChangeStatusMenu_change_status(self, data)}

\* Mutant: an id that names no book stays in the menu.
ChangeStatusMenu_input_id_keeps_unfound(self, data, bs) ==
  UNION {IF ~v.ok THEN {Ret([self EXCEPT !.book_id = None], bs)}
         ELSE {IF r.ok
               THEN Ret([self EXCEPT !.book_id = Some(v.val),
                                     !.status = Some(r.val.status)], r.books)
               ELSE Ret([self EXCEPT !.book_id = Some(v.val)], r.books)
                 : r \in find_book_id(bs, v.val)}
           : v \in validate_id(ValidatorInputData_input_data(data))}

\* Mutant: the found book's status is not taken over.
ChangeStatusMenu_input_id_keeps_status(self, data, bs) ==
  UNION {IF ~v.ok THEN {Ret([self EXCEPT !.book_id = None], bs)}
         ELSE {IF r.ok
               THEN Ret([self EXCEPT !.book_id = Some(v.val)], r.books)
               ELSE Ret([self EXCEPT !.book_id = None], r.books)
                 : r \in find_book_id(bs, v.val)}
           : v \in validate_id(ValidatorInputData_input_data(data))}

\* case '1', from the line read by _input_id on.
ChangeStatusMenu_input_id(self, data, bs) ==
  UNION {IF ~v.ok THEN {Ret([self EXCEPT !.book_id = None], bs)}
         ELSE {IF r.ok
               THEN Ret([self EXCEPT !.book_id = Some(v.val),
                                     !.status = Some(r.val.status)], r.books)
               ELSE Ret([self EXCEPT !.book_id = None], r.books)
                 : r \in find_book_id(bs, v.val)}
           : v \in validate_id(ValidatorInputData_input_data(data))}

\* Mutant: the confirmation keeps the default last_state, None.
ChangeStatusMenu_saved_no_return(self) ==
  [SuccessfulCompletion("Success completion", None, None, None)
     EXCEPT !.additional_info = Some("Book status changed successfully")]

\* case SAVE, the else branch: a default SuccessfulCompletion, then its
\* additional_info and last_state assigned.
ChangeStatusMenu_saved(self) ==
  [SuccessfulCompletion("Success completion", None, None, None)
     EXCEPT !.additional_info = Some("Book status changed successfully"),
            !.last_state = Some(self)]

\* Mutant: BACK keeps the menu.
ChangeStatusMenu_back_stays(self) == self

\* Mutant: a failed save returns a fresh ChangeStatusMenu.
ChangeStatusMenu_save_failed_resets(self) == ChangeStatusMenu(None, None)

\* case SAVE, the except branch.
ChangeStatusMenu_save_failed(self) == self

\* case BACK.
ChangeStatusMenu_back(self) == MainMenu

ChangeStatusMenu_handle_input(self, user_input, bs) ==
  CASE user_input = <<"1">> -> {Ask(self, "id", bs)}
    [] user_input = <<"2">> -> {Ask(self, "status", bs)}
    [] user_input = SAVE ->
         {IF r.ok THEN Ret(ChangeStatusMenu_saved(self), r.books)
                  ELSE Ret(ChangeStatusMenu_save_failed(self), r.books)
            : r \in change_status(bs, self.book_id, self.status)}
    [] user_input = BACK -> {Ret(ChangeStatusMenu_back(self), bs)}
    [] OTHER -> {Ret(self, bs)}

\* A KeyboardInterrupt raised by input() in _input_id or in the picker: the
\* `return self` of the finally clause of case '1' / case '2' discards it.
ChangeStatusMenu_interrupt(self, at, bs) == {Ret(self, bs)}

(* ------------------------------ Menu.run ------------------------------ *)

\* self.handle_input(input()): the method of the current menu's class.
Menu_handle_input(self, user_input, bs) ==
  CASE self.kind = "MainMenu" -> MainMenu_handle_input(self, user_input, bs)
    [] self.kind = "AddMenu" -> AddMenu_handle_input(self, user_input, bs)
    [] self.kind = "SuccessfulCompletion" ->
         SuccessfulCompletion_handle_input(self, user_input, bs)
    [] self.kind = "DeleteMenu" -> DeleteMenu_handle_input(self, user_input, bs)
    [] self.kind = "SearchMenu" -> SearchMenu_handle_input(self, user_input, bs)
    [] self.kind = "ShowBook" -> ShowBook_handle_input(self, user_input, bs)
    [] self.kind = "ChangeStatusMenu" ->
         ChangeStatusMenu_handle_input(self, user_input, bs)

\* A KeyboardInterrupt raised by the input() of run: the except clause of run
\* says goodbye and run returns.
Menu_run_interrupt(self, bs) == {End(self, "interrupted", bs)}

\* The handler's result taken over by the loop.  A result that is no Menu
\* makes the next self.on_enter() raise, which run does not catch.
Apply(o, op, line) ==
  /\ books' = o.books
  /\ state' = o.state
  /\ pc' = o.pc
  /\ session' = IF o.state.kind \in MenuKinds THEN o.session ELSE "crashed"
  /\ last' = [op |-> op, line |-> line, state |-> state, pc |-> pc, books |-> books]

AtPrompt(kind, prompt) ==
  session = "running" /\ state.kind = kind /\ pc = prompt

Init ==
  /\ books = {}
  /\ state = MainMenu
  /\ pc = "main"
  /\ session = "running"
  /\ last = [op |-> "init", line |-> <<>>, state |-> MainMenu, pc |-> "main",
             books |-> {}]

RunMainMenu ==
  /\ AtPrompt("MainMenu", "main")
  /\ \E l \in MainInputs : \E o \in MainMenu_handle_input(state, l, books) :
       Apply(o, "input", l)

RunAddMenu ==
  /\ AtPrompt("AddMenu", "main")
  /\ \E l \in MainInputs : \E o \in AddMenu_handle_input(state, l, books) :
       Apply(o, "input", l)

InputTitle ==
  /\ AtPrompt("AddMenu", "title")
  /\ \E l \in TitleInputs : \E o \in AddMenu_input_title(state, l, books) :
       Apply(o, "input", l)

InputAuthor ==
  /\ AtPrompt("AddMenu", "author")
  /\ \E l \in AuthorInputs : \E o \in AddMenu_input_author(state, l, books) :
       Apply(o, "input", l)

InputYear ==
  /\ AtPrompt("AddMenu", "year")
  /\ \E l \in YearInputs : \E o \in AddMenu_input_year(state, l, books) :
       Apply(o, "input", l)

RunSuccessfulCompletion ==
  /\ AtPrompt("SuccessfulCompletion", "main")
  /\ \E l \in MainInputs : \E o \in SuccessfulCompletion_handle_input(state, l, books) :
       Apply(o, "input", l)

RunDeleteMenu ==
  /\ AtPrompt("DeleteMenu", "main")
  /\ \E l \in MainInputs : \E o \in DeleteMenu_handle_input(state, l, books) :
       Apply(o, "input", l)

RunSearchMenu ==
  /\ AtPrompt("SearchMenu", "main")
  /\ \E l \in MainInputs : \E o \in SearchMenu_handle_input(state, l, books) :
       Apply(o, "input", l)

RunShowBook ==
  /\ AtPrompt("ShowBook", "main")
  /\ \E l \in MainInputs : \E o \in ShowBook_handle_input(state, l, books) :
       Apply(o, "input", l)

RunChangeStatusMenu ==
  /\ AtPrompt("ChangeStatusMenu", "main")
  /\ \E l \in MainInputs : \E o \in ChangeStatusMenu_handle_input(state, l, books) :
       Apply(o, "input", l)

InputId ==
  /\ AtPrompt("ChangeStatusMenu", "id")
  /\ \E l \in IdInputs : \E o \in ChangeStatusMenu_input_id(state, l, books) :
       Apply(o, "input", l)

InputStatus ==
  /\ AtPrompt("ChangeStatusMenu", "status")
  /\ \E l \in StatusInputs : \E o \in ChangeStatusMenu_input_status(state, l, books) :
       Apply(o, "input", l)

\* The external interrupt, delivered while the program is blocked in input().
KeyboardInterrupt ==
  /\ session = "running"
  /\ \E o \in (IF pc = "main" THEN Menu_run_interrupt(state, books)
               ELSE IF state.kind = "AddMenu" THEN AddMenu_interrupt(state, pc, books)
               ELSE ChangeStatusMenu_interrupt(state, pc, books)) :
       Apply(o, "interrupt", <<>>)

Next ==
  \/ RunMainMenu
  \/ RunAddMenu
  \/ InputTitle
  \/ InputAuthor
  \/ InputYear
  \/ RunSuccessfulCompletion
  \/ RunDeleteMenu
  \/ RunSearchMenu
  \/ RunShowBook
  \/ RunChangeStatusMenu
  \/ InputId
  \/ InputStatus
  \/ KeyboardInterrupt

Spec == Init /\ [][Next]_vars

TypeOK ==
  /\ session \in {"running", "exited", "interrupted", "crashed"}
  /\ pc \in {"main", "title", "author", "year", "id", "status"}
  /\ \A b \in books : b.id \in 1..MaxId /\ b.status \in BookStatusValues
  /\ \A b, c \in books : b.id = c.id => b = c

(* ------------------------------ claims -------------------------------- *)

\* The last step was handle_input of a `kind` menu on the line last.line.
Handled(kind) ==
  last.op = "input" /\ last.pc = "main" /\ last.state.kind = kind

\* The last step completed a sub-prompt on the line last.line.
Answered(prompt) == last.op = "input" /\ last.pc = prompt

\* Lines that are neither a command token nor a digit of a menu.
PlainInputs == {<<"0">>, <<"D">>, <<>>}

\* C1: every transition, on every input line and whether or not the validator
\* or the catalogue fails, returns one of the seven menus and lets no failure
\* leave the driver loop; only EXIT on MainMenu yields no next state.
C1_TransitionReturnsMenu ==
  /\ state.kind \in MenuKinds
  /\ session # "crashed"
  /\ last.op = "input" =>
       \/ session = "running"
       \/ session = "exited" /\ Handled("MainMenu") /\ last.line = EXIT
  /\ (session = "running" /\ pc = "main") =>
       \A l \in MainInputs :
         \/ Menu_handle_input(state, l, books) # {}
         \/ state.kind = "AddMenu" /\ l = SAVE /\ Ids(books) = 1..MaxId

\* C1 witness: the picker was given a position past the last status, the
\* validator raised inside the transition, and the session goes on.
C1_Witness ==
  /\ Answered("status") /\ last.line = <<"3">>
  /\ state.kind = "ChangeStatusMenu" /\ session = "running"

\* C2: an interrupt, at a menu's prompt or inside a sub-prompt, ends the
\* driver loop; no transition absorbs it.
C2_InterruptEndsSession ==
  last.op = "interrupt" => session = "interrupted"

\* C3: the session ends only by EXIT on MainMenu or by an interrupt; EXIT typed
\* in any other menu yields the next state a plain line yields.
C3_OnlyTwoExits ==
  /\ session # "running" =>
       \/ session = "exited" /\ Handled("MainMenu") /\ last.line = EXIT
       \/ session = "interrupted" /\ last.op = "interrupt"
  /\ (last.op = "input" /\ last.pc = "main" /\ last.line = EXIT
        /\ last.state.kind # "MainMenu") =>
       /\ session = "running"
       /\ \E l \in PlainInputs : \E o \in Menu_handle_input(last.state, l, last.books) :
            o.state = state /\ o.books = books /\ o.pc = pc /\ o.session = session

\* C3 witness: EXIT was typed in an AddMenu that holds a draft.
C3_Witness ==
  /\ Handled("AddMenu") /\ last.line = EXIT /\ IsSet(last.state.book_title)
  /\ session = "running"

AllSet(menu) == IsSet(menu.book_title) /\ IsSet(menu.author) /\ IsSet(menu.year)

\* C4: AddMenu SAVE with the three fields set adds exactly one book, with the
\* draft's fields and an id no book had; the next state is a confirmation of
\* that book that returns to an empty AddMenu, on which SAVE adds nothing.
C4_SaveAddsOneBook ==
  (Handled("AddMenu") /\ last.line = SAVE /\ AllSet(last.state)) =>
    /\ \E b \in books :
         /\ b.id \notin Ids(last.books)
         /\ books = last.books \cup {b}
         /\ b.title = Val(last.state.book_title)
         /\ b.author = Val(last.state.author)
         /\ b.year = Val(last.state.year)
         /\ state.kind = "SuccessfulCompletion"
         /\ state.books = Some(<<b>>)
    /\ Cardinality(books) = Cardinality(last.books) + 1
    /\ state.last_state = Some(AddMenu(None, None, None))
    /\ \A o \in AddMenu_handle_input(Val(state.last_state), SAVE, books) :
         o.books = books /\ o.state = Val(state.last_state)

\* C4 witness: a complete draft was saved into a catalogue that held a book.
C4_Witness ==
  /\ Handled("AddMenu") /\ last.line = SAVE /\ AllSet(last.state)
  /\ last.books # {} /\ state.kind = "SuccessfulCompletion"

\* C5: AddMenu SAVE with a field unset adds nothing and returns the same
\* AddMenu, every field as it was.
C5_IncompleteSaveRefused ==
  (Handled("AddMenu") /\ last.line = SAVE /\ ~AllSet(last.state)) =>
    /\ books = last.books
    /\ state = last.state
    /\ pc = "main" /\ session = "running"

\* C5 witness: SAVE with the title set and the author unset.
C5_Witness ==
  /\ Handled("AddMenu") /\ last.line = SAVE
  /\ IsSet(last.state.book_title) /\ ~IsSet(last.state.author)
  /\ state.kind = "AddMenu"

\* C6: DELETE with a candidate loaded removes exactly the candidate's book and
\* confirms it with that book as payload, returning to an empty DeleteMenu; a
\* DELETE on that empty DeleteMenu changes nothing and stays there.
C6_DeleteRemovesCandidate ==
  (Handled("DeleteMenu") /\ last.line = DELETE /\ IsSet(last.state.book_id)) =>
    /\ \E b \in last.books :
         /\ b.id = Val(last.state.book_id)
         /\ books = last.books \ {b}
         /\ state.kind = "SuccessfulCompletion"
         /\ state.books = Some(<<b>>)
    /\ state.last_state = Some(DeleteMenu(None, None))
    /\ \A o \in DeleteMenu_handle_input(Val(state.last_state), DELETE, books) :
         o.books = books /\ o.state = Val(state.last_state) /\ o.session = "running"

\* C6 witness: a candidate was deleted from a catalogue of two books.
C6_Witness ==
  /\ Handled("DeleteMenu") /\ last.line = DELETE /\ IsSet(last.state.book_id)
  /\ Cardinality(last.books) = 2 /\ Cardinality(books) = 1
  /\ state.kind = "SuccessfulCompletion"

\* The line is not the text of the id of a book of the catalogue bs.
FailsAsCandidate(line, bs) == ~(IsInt(line) /\ ToInt(line) \in Ids(bs))

\* C7: in DeleteMenu a line other than BACK and DELETE that fails as a
\* candidate leaves candidate id, preview and catalogue as they were, and the
\* next state is the same DeleteMenu.
C7_FailedCandidateKeepsState ==
  (Handled("DeleteMenu") /\ last.line \notin {BACK, DELETE}
     /\ FailsAsCandidate(last.line, last.books)) =>
    /\ state = last.state
    /\ books = last.books
    /\ pc = "main" /\ session = "running"

\* C7 witness: with a candidate loaded, the id of no book was entered.
C7_Witness ==
  /\ Handled("DeleteMenu") /\ last.line = <<"2">> /\ 2 \notin Ids(last.books)
  /\ IsSet(last.state.book_id) /\ IsSet(last.state.book)
  /\ state.kind = "DeleteMenu"

\* C8: in the status picker a position outside 1..N aborts the selection:
\* status and candidate id are what they were, no status is picked by
\* wrap-around, and the next state is the same ChangeStatusMenu.
C8_OutOfRangeAborts ==
  (Answered("status") /\ IsInt(last.line)
     /\ ToInt(last.line) \notin 1..Len(BookStatus)) =>
    /\ state.kind = "ChangeStatusMenu"
    /\ state.status = last.state.status
    /\ state.book_id = last.state.book_id
    /\ pc = "main" /\ session = "running"

EditMenus == {"AddMenu", "DeleteMenu", "SearchMenu", "ChangeStatusMenu"}

\* C9: BACK from an edit-workflow menu yields MainMenu and leaves the
\* catalogue alone; entering a menu from MainMenu gives it with all fields
\* unset, whatever was edited before.
C9_BackDiscardsDraft ==
  /\ (last.op = "input" /\ last.pc = "main" /\ last.state.kind \in EditMenus
        /\ last.line = BACK) =>
       state = MainMenu /\ books = last.books /\ pc = "main" /\ session = "running"
  /\ (Handled("MainMenu") /\ last.line = <<"1">>) => state = AddMenu(None, None, None)
  /\ (Handled("MainMenu") /\ last.line = <<"2">>) => state = DeleteMenu(None, None)
  /\ (Handled("MainMenu") /\ last.line = <<"5">>) => state = ChangeStatusMenu(None, None)

\* C9 witness: BACK from a ChangeStatusMenu that holds a candidate and a status.
C9_Witness ==
  /\ Handled("ChangeStatusMenu") /\ last.line = BACK
  /\ IsSet(last.state.book_id) /\ IsSet(last.state.status)
  /\ state = MainMenu

\* C10: ShowBook and the confirmation return their stored return state on any
\* line and leave the catalogue alone; the confirmation of a status change
\* returns to the ChangeStatusMenu that was saved, id and status as they were.
C10_TransientReturns ==
  /\ Handled("ShowBook") =>
       state = last.state.last_state /\ books = last.books /\ pc = "main"
  /\ Handled("SuccessfulCompletion") =>
       /\ IsSet(last.state.last_state)
       /\ state = Val(last.state.last_state)
       /\ books = last.books /\ pc = "main"
  /\ (Handled("ChangeStatusMenu") /\ last.line = SAVE
        /\ state.kind = "SuccessfulCompletion") =>
       \A l \in MainInputs : \A o \in SuccessfulCompletion_handle_input(state, l, books) :
         o.state = last.state /\ o.books = books

\* C10 witness: a list of search results was left with a command token, back
\* to the SearchMenu.
C10_Witness ==
  /\ Handled("ShowBook") /\ last.line = SAVE /\ last.state.books # {}
  /\ state = SearchMenu

\* C11: ChangeStatusMenu SAVE either succeeds, and then the book with the
\* candidate id has the selected status, nothing else in the catalogue differs
\* and the confirmation returns to this menu, or fails, and then catalogue and
\* menu are as they were; it fails whenever the id or the status is unset.
C11_SaveChangesStatus ==
  (Handled("ChangeStatusMenu") /\ last.line = SAVE) =>
    \/ /\ IsSet(last.state.book_id) /\ IsSet(last.state.status)
       /\ \E b \in last.books :
            /\ b.id = Val(last.state.book_id)
            /\ books = (last.books \ {b})
                         \cup {[b EXCEPT !.status = Val(last.state.status)]}
       /\ Ids(books) = Ids(last.books)
       /\ state.kind = "SuccessfulCompletion"
       /\ state.last_state = Some(last.state)
       /\ pc = "main" /\ session = "running"
    \/ /\ books = last.books
       /\ state = last.state
       /\ pc = "main" /\ session = "running"
       /\ ~(IsSet(last.state.book_id) /\ IsSet(last.state.status))

\* C11 witness: with two books, the status of one was changed to another status.
C11_Witness ==
  /\ Handled("ChangeStatusMenu") /\ last.line = SAVE
  /\ Cardinality(books) = 2 /\ books # last.books
  /\ state.kind = "SuccessfulCompletion"

\* C12: the next state of MainMenu is fixed by the line as its table says,
\* and none of its transitions changes the catalogue.
C12_MainMenuTable ==
  Handled("MainMenu") =>
    /\ books = last.books
    /\ pc = "main"
    /\ CASE last.line = <<"1">> -> state = AddMenu(None, None, None)
         [] last.line = <<"2">> -> state = DeleteMenu(None, None)
         [] last.line = <<"3">> -> state = SearchMenu
         [] last.line = <<"4">> ->
              state = ShowBook(last.books, MainMenu) \/ state = MainMenu
         [] last.line = <<"5">> -> state = ChangeStatusMenu(None, None)
         [] last.line = EXIT -> session = "exited"
         [] OTHER -> state = MainMenu
    /\ last.line # EXIT => session = "running"

\* C12 witness: '4' listed a catalogue of two books.
C12_Witness ==
  /\ Handled("MainMenu") /\ last.line = <<"4">>
  /\ state.kind = "ShowBook" /\ Cardinality(state.books) = 2

\* The books b and c differ in their status at most.
SameButStatus(b, c) ==
  b.id = c.id /\ b.title = c.title /\ b.author = c.author /\ b.year = c.year

\* C13: the catalogue changes only by a successful AddMenu SAVE (one book
\* more), DeleteMenu DELETE (one book less) or ChangeStatusMenu SAVE (one
\* book's status); a book's id, title, author and year never change.
C13_CatalogueFrame ==
  /\ books # last.books =>
       \/ /\ Handled("AddMenu") /\ last.line = SAVE
          /\ \E b \in books \ last.books : books = last.books \cup {b}
       \/ /\ Handled("DeleteMenu") /\ last.line = DELETE
          /\ \E b \in last.books \ books : books = last.books \ {b}
       \/ /\ Handled("ChangeStatusMenu") /\ last.line = SAVE
          /\ \E b \in last.books : \E c \in books :
               /\ SameButStatus(b, c) /\ b.status # c.status
               /\ books = (last.books \ {b}) \cup {c}
  /\ \A b \in last.books : \A c \in books : b.id = c.id => SameButStatus(b, c)

\* C13 witness: a candidate lookup in DeleteMenu succeeded and the catalogue
\* of two books is as it was.
C13_Witness ==
  /\ Handled("DeleteMenu") /\ state.kind = "DeleteMenu"
  /\ IsSet(state.book_id) /\ ~IsSet(last.state.book_id)
  /\ Cardinality(books) = 2 /\ books = last.books

\* C14: an AddMenu field edit whose line fails validation unsets the author
\* ('2') or the year ('3') but keeps the title ('1'); an accepted line sets
\* the field; the other two fields and the catalogue are untouched and the
\* next state is the same AddMenu.
C14_FieldEdits ==
  /\ Answered("title") =>
       \E r \in validate_title(strip(last.line)) :
         state = IF r.ok THEN [last.state EXCEPT !.book_title = Some(r.val)]
                         ELSE last.state
  /\ Answered("author") =>
       \E r \in validate_author(strip(last.line)) :
         state = IF r.ok THEN [last.state EXCEPT !.author = Some(r.val)]
                         ELSE [last.state EXCEPT !.author = None]
  /\ Answered("year") =>
       \E r \in validate_year(strip(last.line)) :
         state = IF r.ok THEN [last.state EXCEPT !.year = Some(r.val)]
                         ELSE [last.state EXCEPT !.year = None]
  /\ (Answered("title") \/ Answered("author") \/ Answered("year")) =>
       books = last.books /\ pc = "main" /\ session = "running"

\* C14 witness: an author that was set is unset by an empty line, title and
\* year staying set.
C14_Witness ==
  /\ Answered("author") /\ strip(last.line) = <<>>
  /\ IsSet(last.state.author) /\ ~IsSet(state.author)
  /\ IsSet(state.book_title) /\ IsSet(state.year)

\* The line, stripped, is the text of the id of a book of the catalogue bs.
NamesBook(line, bs) == IsInt(strip(line)) /\ ToInt(strip(line)) \in Ids(bs)

\* C15: ChangeStatusMenu '1' with the id of a book sets the candidate id and
\* replaces the menu's status by that book's status; with any other line it
\* unsets the candidate id and keeps the status; the catalogue is untouched
\* and the next state is the same ChangeStatusMenu.
C15_IdEntry ==
  Answered("id") =>
    /\ state = IF NamesBook(last.line, last.books)
               THEN [last.state EXCEPT
                       !.book_id = Some(ToInt(strip(last.line))),
                       !.status = Some(BookById(last.books, ToInt(strip(last.line))).status)]
               ELSE [last.state EXCEPT !.book_id = None]
    /\ books = last.books /\ pc = "main" /\ session = "running"

\* C15 witness: a status picked earlier is overwritten by the found book's.
C15_Witness ==
  /\ Answered("id") /\ NamesBook(last.line, last.books)
  /\ IsSet(last.state.status) /\ state.status # last.state.status
  /\ IsSet(state.book_id)

\* C16: SearchMenu on a line other than BACK: a successful query leads to a
\* ShowBook of exactly the results that returns to SearchMenu on any line, a
\* failed one to the same SearchMenu; the catalogue is untouched.
C16_SearchShowsResults ==
  (Handled("SearchMenu") /\ last.line # BACK) =>
    /\ books = last.books /\ pc = "main" /\ session = "running"
    /\ \/ state = last.state
       \/ /\ state.kind = "ShowBook"
          /\ state.books = {b \in last.books : Matches(b, last.line)}
          /\ state.last_state = SearchMenu
          /\ \A l \in MainInputs : \A o \in ShowBook_handle_input(state, l, books) :
               o.state = SearchMenu /\ o.books = books

\* C16 witness: a query by title found a book.
C16_Witness ==
  /\ Handled("SearchMenu") /\ last.line = <<"D">>
  /\ state.kind = "ShowBook" /\ state.books # {}

\* The menus that exist in a state: the current one and, behind a ShowBook or
\* a confirmation, the one it returns to.
Held ==
  {state}
    \cup (IF state.kind = "ShowBook" THEN {state.last_state} ELSE {})
    \cup (IF state.kind = "SuccessfulCompletion" THEN state.last_state ELSE {})

\* C17: a candidate id held by a DeleteMenu or ChangeStatusMenu, current or
\* returned to, is the id of a book of the catalogue; so DELETE with a
\* candidate loaded never fails.
C17_CandidatesNotStale ==
  /\ \A m \in Held :
       (m.kind \in {"DeleteMenu", "ChangeStatusMenu"} /\ IsSet(m.book_id)) =>
         Val(m.book_id) \in Ids(books)
  /\ (Handled("DeleteMenu") /\ last.line = DELETE /\ IsSet(last.state.book_id)) =>
       state.kind = "SuccessfulCompletion"

\* C17 witness: a status change is confirmed and the menu behind the
\* confirmation holds a candidate, in a catalogue of two books.
C17_Witness ==
  /\ state.kind = "SuccessfulCompletion" /\ Cardinality(books) = 2
  /\ \E m \in Held : m.kind = "ChangeStatusMenu" /\ IsSet(m.book_id)

\* C18: in a DeleteMenu candidate id and preview are both unset, or both set
\* with the preview being the catalogue's book of that id; so DELETE removes
\* the book previewed.
C18_PreviewIsCandidate ==
  /\ \A m \in Held :
       m.kind = "DeleteMenu" =>
         \/ ~IsSet(m.book_id) /\ ~IsSet(m.book)
         \/ /\ IsSet(m.book_id) /\ IsSet(m.book)
            /\ Val(m.book).id = Val(m.book_id)
            /\ Val(m.book) \in books
  /\ (Handled("DeleteMenu") /\ last.line = DELETE
        /\ state.kind = "SuccessfulCompletion") =>
       /\ state.books = Some(<<Val(last.state.book)>>)
       /\ books = last.books \ {Val(last.state.book)}

\* C18 witness: with a candidate loaded, an id of no book was entered, and the
\* candidate and its preview are still there.
C18_Witness ==
  /\ Handled("DeleteMenu") /\ last.line = <<"2">> /\ 2 \notin Ids(books)
  /\ state.kind = "DeleteMenu" /\ IsSet(state.book) /\ Val(state.book_id) = 1

Lasting == {"MainMenu", "SearchMenu", "AddMenu", "DeleteMenu", "ChangeStatusMenu"}

\* C19: a ShowBook or a confirmation has a return state, and it is one of the
\* five lasting menus; so one line, whatever it is, leaves the screen.
C19_ReturnStateLasting ==
  /\ state.kind = "ShowBook" => state.last_state.kind \in Lasting
  /\ state.kind = "SuccessfulCompletion" =>
       IsSet(state.last_state) /\ Val(state.last_state).kind \in Lasting
  /\ (session = "running" /\ state.kind \in {"ShowBook", "SuccessfulCompletion"}) =>
       \A l \in MainInputs : \A o \in Menu_handle_input(state, l, books) :
         o.state.kind \in Lasting

\* C19 witness: the confirmation of a deleted book, returning to a DeleteMenu.
C19_Witness ==
  /\ state.kind = "SuccessfulCompletion" /\ session = "running"
  /\ Val(state.last_state).kind = "DeleteMenu"

\* The lines that may be typed at a prompt, and what the program does with one.
InputsAt(at) ==
  CASE at = "main" -> MainInputs
    [] at = "title" -> TitleInputs
    [] at = "author" -> AuthorInputs
    [] at = "year" -> YearInputs
    [] at = "id" -> IdInputs
    [] at = "status" -> StatusInputs

AfterLine(self, at, l, bs) ==
  CASE at = "main" -> Menu_handle_input(self, l, bs)
    [] at = "title" -> AddMenu_input_title(self, l, bs)
    [] at = "author" -> AddMenu_input_author(self, l, bs)
    [] at = "year" -> AddMenu_input_year(self, l, bs)
    [] at = "id" -> ChangeStatusMenu_input_id(self, l, bs)
    [] at = "status" -> ChangeStatusMenu_input_status(self, l, bs)

\* BACK typed in the menu `self` leads to MainMenu.
BackLeadsToMain(self, bs) ==
  /\ Menu_handle_input(self, BACK, bs) # {}
  /\ \A o \in Menu_handle_input(self, BACK, bs) :
       o.state = MainMenu /\ o.pc = "main" /\ o.session = "running"

\* C20: no state is a dead end: MainMenu is at most two lines away (BACK from
\* an edit menu; any line on a ShowBook, a confirmation or a sub-prompt, then
\* BACK), and EXIT on MainMenu ends the session.
C20_NoDeadEnd ==
  session = "running" =>
    /\ \/ state = MainMenu
       \/ pc = "main" /\ state.kind \in EditMenus /\ BackLeadsToMain(state, books)
       \/ /\ pc # "main" \/ state.kind \in {"ShowBook", "SuccessfulCompletion"}
          /\ \A l \in InputsAt(pc) :
               /\ AfterLine(state, pc, l, books) # {}
               /\ \A o \in AfterLine(state, pc, l, books) :
                    /\ o.pc = "main" /\ o.session = "running"
                    /\ o.state = MainMenu \/ BackLeadsToMain(o.state, o.books)
    /\ \A o \in MainMenu_handle_input(MainMenu, EXIT, books) : o.session = "exited"

\* C20 witness: two lines away from MainMenu: a confirmation that returns to
\* a ChangeStatusMenu holding a candidate.
C20_Witness ==
  /\ session = "running" /\ state.kind = "SuccessfulCompletion"
  /\ IsSet(state.last_state)
  /\ Val(state.last_state).kind = "ChangeStatusMenu"
  /\ IsSet(Val(state.last_state).book_id) /\ books # {}

====
